---- MODULE Spec2Model ----
(***************************************************************************)
(* useFilter (src/index.mjs): a React hook that keeps a list of filter     *)
(* states and a filtered copy of a list.  The hook's state lives in two    *)
(* useState cells (filters, filteredList) and one useRef (originalList).   *)
(* Every manager method only queues an updater function on the filters     *)
(* cell; React runs the queued updaters, in the order they were queued,    *)
(* when it renders the component again.                                    *)
(***************************************************************************)
EXTENDS Integers, Sequences, FiniteSets, TLC

VARIABLES
    props,          \* the argument of useFilter: [list, filters]
    originalList,   \* useRef(list).current
    filters,        \* useState cell: the filter states of the last render
    filteredList,   \* useState cell: the filtered list of the last render
    updateQueue,    \* updaters queued on the filters cell, not yet run
    filteredQueue,  \* updaters queued on the filteredList cell, not yet run
    returned,       \* what the last manager call of the running handler returned
    raised          \* where an exception has surfaced, "none" while none has

vars == <<props, originalList, filters, filteredList, updateQueue,
          filteredQueue, returned, raised>>

\* The most updaters a batch holds before React renders.
MaxPending == 3

-----------------------------------------------------------------------------
(* JavaScript values.  A value carries its type, so that === is equality.  *)
(* Every record of the module lists its fields in the order in which the   *)
(* module first mentions them, the order TLC keeps them in.                *)

Null == [t |-> "null"]
Undefined == [t |-> "undefined"]
Num(n) == [t |-> "number", v |-> n]
Str(chars) == [t |-> "string", s |-> chars]

\* const manager = { ... }: the object the hook returns under `manager`.
manager == [t |-> "object", v |-> "manager"]

\* No manager method has been called since the last render.
NoCall == [t |-> "none"]

\* String.prototype.toLowerCase on one character, over the letters in use.
LowerChar(c) ==
    CASE c = "A" -> "a"
      [] c = "E" -> "e"
      [] c = "L" -> "l"
      [] c = "R" -> "r"
      [] c = "Y" -> "y"
      [] OTHER -> c

\* String.prototype.toLowerCase.
toLowerCase(chars) == [i \in 1..Len(chars) |-> LowerChar(chars[i])]

\* ToNumber of a payload used in a relational comparison (null is 0).
ToNumber(v) == IF v.t = "number" THEN v.v ELSE 0

\* Variant: no default, an omitted payload stays undefined.
DefaultNullMissing(payload) == payload

\* A default parameter `payload = null`: undefined takes the default.
DefaultNull(payload) == IF payload = Undefined THEN Null ELSE payload

-----------------------------------------------------------------------------
(* The consumer's data: books, predicates and filter names of the README.  *)

HarryPotter == [genre |-> "Fantasy", year |-> 1997]
Hobbit == [genre |-> "Fantasy", year |-> 1937]
Sapiens == [genre |-> "Non-fiction", year |-> 2011]

\* The predicate functions a descriptor can carry, called as fn(item, payload):
\*   (book) => book.genre === "Fantasy"
\*   (book) => book.year > 2000
\*   (book, minYear) => book.year >= minYear
\*   (book, [minYear, maxYear]) => book.year >= minYear && book.year <= maxYear
\* Call is the value the call returns, when it returns.
Call(fn, item, payload) ==
    CASE fn = "fantasy" -> item.genre = "Fantasy"
      [] fn = "year" -> item.year > 2000
      [] fn = "minYear" -> item.year >= ToNumber(payload)
      [] fn = "yearRange" ->
            /\ payload.t = "array"
            /\ item.year >= ToNumber(payload.v[1])
            /\ item.year <= ToNumber(payload.v[2])

\* The call fn(item, payload) throws instead of returning: destructuring
\* [minYear, maxYear] from a payload that is no array is a TypeError.
Throws(fn, item, payload) == fn = "yearRange" /\ payload.t # "array"

nameYear == Str(<<"y", "e", "a", "r">>)
nameYearCap == Str(<<"Y", "e", "a", "r">>)
nameAll == Str(<<"a", "l", "l">>)
nameAllUpper == Str(<<"A", "L", "L">>)
nameAllCap == Str(<<"A", "l", "l">>)

\* export function filter(name, filter)
filter(name, fn) == [filter |-> fn, name |-> name]

\* The arguments the hook is mounted with: { list, filters }.
Props ==
    { [filters |-> <<filter(nameYear, "minYear"), filter(nameYearCap, "fantasy")>>,
       list |-> <<Sapiens, Hobbit, HarryPotter, Sapiens>>],
      [filters |-> <<filter(nameYear, "fantasy"), filter(nameYear, "minYear")>>,
       list |-> <<Hobbit, HarryPotter, Sapiens>>],
      [filters |-> <<filter(nameYear, "year")>>,
       list |-> <<HarryPotter, Sapiens, Hobbit>>],
      [filters |-> <<filter(nameYearCap, "yearRange")>>,
       list |-> <<Hobbit, Sapiens>>],
      [filters |-> <<>>, list |-> <<Sapiens, HarryPotter>>] }

\* The (filterName, payload) arguments the consumer calls apply, remove and
\* toggle with (an undefined payload is an omitted one), and the names it
\* passes to getFilter.
FilterNames == {nameYear, nameYearCap}
Calls == {<<nameYear, Undefined>>, <<nameYear, Num(1990)>>,
          <<nameYearCap, Undefined>>}
QueryNames ==
    {nameAll, nameAllUpper, nameAllCap, nameYear, nameYearCap,
     Str(<<"a", "L", "l">>), Str(<<"a", "l">>), Str(<<"y", "E", "A", "R">>),
     Str(<<>>), Null, Undefined}

\* The calls of the consumer whose scheduling is followed to the end.
LiveCalls == {<<nameYear, Num(1990)>>}

\* The values the consumer passes to getFilter: names, and a number.
QueryValues == QueryNames \cup {Num(1990)}

\* The lists the consumer passes when it renders again.
Lists == {<<Sapiens, Hobbit>>, <<HarryPotter>>}

-----------------------------------------------------------------------------
(* useFilter: the initial state of the cells.                              *)

\* Variant: the payload field is left out of the initial entries (undefined).
initialFiltersNoPayload(fltrs) ==
    [i \in 1..Len(fltrs) |->
        [payload |-> Undefined, filter |-> fltrs[i].filter,
         name |-> fltrs[i].name, isActive |-> FALSE]]

\* useState(() => fltrs.map((filter) => ({...filter, isActive: false, payload: null})))
initialFilters(fltrs) ==
    [i \in 1..Len(fltrs) |->
        [payload |-> Null, filter |-> fltrs[i].filter,
         name |-> fltrs[i].name, isActive |-> FALSE]]

Init ==
    /\ props \in Props
    /\ filters = initialFilters(props.filters)
    /\ filteredList = props.list
    /\ originalList = props.list
    /\ updateQueue = <<>>
    /\ filteredQueue = <<>>
    /\ returned = NoCall
    /\ raised = "none"

-----------------------------------------------------------------------------
(* The updater functions the manager queues.                               *)

\* Variant: toggle turns the filter on instead of flipping it.
activityToggleOn(kind, f) ==
    CASE kind = "apply" -> TRUE
      [] kind = "remove" -> FALSE
      [] kind = "toggle" -> TRUE

\* The `activity` callbacks of apply, remove and toggle.
activity(kind, f) ==
    CASE kind = "apply" -> TRUE
      [] kind = "remove" -> FALSE
      [] kind = "toggle" -> ~f.isActive

\* Variant: names are compared without regard to letter case.
setActivityOfUpdaterAnyCase(fs, filterName, payload, kind) ==
    [i \in 1..Len(fs) |->
        IF toLowerCase(fs[i].name.s) = toLowerCase(filterName.s)
        THEN [fs[i] EXCEPT !.isActive = activity(kind, fs[i]),
                           !.payload = payload]
        ELSE fs[i]]

\* Variant: a deactivated filter keeps the payload it had.
setActivityOfUpdaterKeepPayload(fs, filterName, payload, kind) ==
    [i \in 1..Len(fs) |->
        IF fs[i].name = filterName
        THEN [fs[i] EXCEPT !.isActive = activity(kind, fs[i]),
                           !.payload = IF activity(kind, fs[i])
                                       THEN payload ELSE fs[i].payload]
        ELSE fs[i]]

\* Variant: filter in place of map, the entries of another name are dropped.
setActivityOfUpdaterOnlyNamed(fs, filterName, payload, kind) ==
    LET IsNamed(f) == f.name = filterName
        named == SelectSeq(fs, IsNamed)
    IN [i \in 1..Len(named) |->
            [named[i] EXCEPT !.isActive = activity(kind, named[i]),
                             !.payload = payload]]

\* Variant: only the first entry of the name is changed, as a find would.
setActivityOfUpdaterFirstNamed(fs, filterName, payload, kind) ==
    [i \in 1..Len(fs) |->
        IF /\ fs[i].name = filterName
           /\ \A j \in 1..(i - 1) : fs[j].name # filterName
        THEN [fs[i] EXCEPT !.isActive = activity(kind, fs[i]),
                           !.payload = payload]
        ELSE fs[i]]

\* (filters) => filters.map((filter) => filter.name === filterName
\*     ? { ...filter, isActive: activity(filter), payload } : filter)
setActivityOfUpdater(fs, filterName, payload, kind) ==
    [i \in 1..Len(fs) |->
        IF fs[i].name = filterName
        THEN [fs[i] EXCEPT !.isActive = activity(kind, fs[i]),
                           !.payload = payload]
        ELSE fs[i]]

\* Variant: reset also clears the payloads.
resetUpdaterClearPayload(prevFilters) ==
    [i \in 1..Len(prevFilters) |->
        [prevFilters[i] EXCEPT !.isActive = FALSE, !.payload = Null]]

\* Variant: reset deactivates the first entry only.
resetUpdaterFirstOnly(prevFilters) ==
    [i \in 1..Len(prevFilters) |->
        IF i = 1 THEN [prevFilters[i] EXCEPT !.isActive = FALSE]
        ELSE prevFilters[i]]

\* (prevFilters) => prevFilters.map((filter) => ({...filter, isActive: false}))
resetUpdater(prevFilters) ==
    [i \in 1..Len(prevFilters) |-> [prevFilters[i] EXCEPT !.isActive = FALSE]]

\* Variant: Array.prototype.some, one passing predicate is enough.
RECURSIVE some(_, _)
some(fs, item) ==
    IF fs = <<>> THEN FALSE
    ELSE IF Call(Head(fs).filter, item, Head(fs).payload)
         THEN TRUE
         ELSE some(Tail(fs), item)

\* Array.prototype.every over the filter states fs, for one item.
RECURSIVE every(_, _)
every(fs, item) ==
    IF fs = <<>> THEN TRUE
    ELSE IF Call(Head(fs).filter, item, Head(fs).payload)
         THEN every(Tail(fs), item)
         ELSE FALSE

\* Array.prototype.every over fs, for one item, ends by an exception: a
\* predicate throws before any predicate has returned false.
RECURSIVE everyThrows(_, _)
everyThrows(fs, item) ==
    IF fs = <<>> THEN FALSE
    ELSE IF Throws(Head(fs).filter, item, Head(fs).payload)
         THEN TRUE
         ELSE IF Call(Head(fs).filter, item, Head(fs).payload)
              THEN everyThrows(Tail(fs), item)
              ELSE FALSE

\* currentFilters.filter((filter) => filter.isActive)
RECURSIVE activeFilters(_)
activeFilters(fs) ==
    IF fs = <<>> THEN <<>>
    ELSE IF Head(fs).isActive
         THEN <<Head(fs)>> \o activeFilters(Tail(fs))
         ELSE activeFilters(Tail(fs))

\* Variant: the passing items are collected in reverse order.
RECURSIVE filterListReversed(_, _)
filterListReversed(list, currentFilters) ==
    IF list = <<>> THEN <<>>
    ELSE IF every(activeFilters(currentFilters), Head(list))
         THEN filterListReversed(Tail(list), currentFilters) \o <<Head(list)>>
         ELSE filterListReversed(Tail(list), currentFilters)

\* list.filter((item) => currentFilters.filter(isActive).every(...))
RECURSIVE filterList(_, _)
filterList(list, currentFilters) ==
    IF list = <<>> THEN <<>>
    ELSE IF every(activeFilters(currentFilters), Head(list))
         THEN <<Head(list)>> \o filterList(Tail(list), currentFilters)
         ELSE filterList(Tail(list), currentFilters)

\* list.filter(...) ends by an exception: the callback throws for some item.
filterListThrows(list, currentFilters) ==
    \E i \in DOMAIN list : everyThrows(activeFilters(currentFilters), list[i])

\* The updater of activate() hands this closure to setFilteredList.
filteredListUpdater(currentFilters) == [currentFilters |-> currentFilters]

\* Variant: the updater of activate() returns the entries deactivated, as
\* if an activation used the filters up.
runUpdaterActivateResets(u, fs) ==
    CASE u.fn = "setActivityOf" ->
            setActivityOfUpdater(fs, u.filterName, u.payload, u.activity)
      [] u.fn = "reset" -> resetUpdater(fs)
      [] u.fn = "activate" -> resetUpdater(fs)

\* One queued updater of the filters cell, run on the state `fs`.
runUpdater(u, fs) ==
    CASE u.fn = "setActivityOf" ->
            setActivityOfUpdater(fs, u.filterName, u.payload, u.activity)
      [] u.fn = "reset" -> resetUpdater(fs)
      [] u.fn = "activate" -> fs

\* Variant: the updater of activate() filters with the filter states of the
\* last render instead of the states it is handed.
RECURSIVE processUpdateQueueStale(_, _, _)
processUpdateQueueStale(fs, queue, fq) ==
    IF queue = <<>> THEN [filters |-> fs, filteredQueue |-> fq]
    ELSE processUpdateQueueStale(
            runUpdater(Head(queue), fs),
            Tail(queue),
            IF Head(queue).fn = "activate"
            THEN Append(fq, filteredListUpdater(filters))
            ELSE fq)

\* Variant: every updater filters the list again, not only activate()'s.
RECURSIVE processUpdateQueueRefilter(_, _, _)
processUpdateQueueRefilter(fs, queue, fq) ==
    IF queue = <<>> THEN [filters |-> fs, filteredQueue |-> fq]
    ELSE processUpdateQueueRefilter(
            runUpdater(Head(queue), fs),
            Tail(queue),
            Append(fq, filteredListUpdater(runUpdater(Head(queue), fs))))

\* Variant: the updater of activate() filters with the states the whole
\* batch leaves, the calls issued after it included.
RECURSIVE processUpdateQueueLate(_, _, _)
processUpdateQueueLate(fs, queue, fq) ==
    IF queue = <<>> THEN [filters |-> fs, filteredQueue |-> fq]
    ELSE processUpdateQueueLate(
            runUpdater(Head(queue), fs),
            Tail(queue),
            IF Head(queue).fn = "activate"
            THEN Append(fq, filteredListUpdater(
                    processUpdateQueueStale(fs, queue, <<>>).filters))
            ELSE fq)

\* Variant: every updater is run on the states of the last render, as
\* setFilters(filters.map(...)) would, so the last call overwrites the others.
RECURSIVE processUpdateQueueOverwrite(_, _, _)
processUpdateQueueOverwrite(fs, queue, fq) ==
    IF queue = <<>> THEN [filters |-> fs, filteredQueue |-> fq]
    ELSE processUpdateQueueOverwrite(
            runUpdater(Head(queue), filters),
            Tail(queue),
            IF Head(queue).fn = "activate"
            THEN Append(fq, filteredListUpdater(fs))
            ELSE fq)

\* React runs the queued updaters of the filters cell in queue order; the
\* updater of activate() calls setFilteredList while it runs.
RECURSIVE processUpdateQueue(_, _, _)
processUpdateQueue(fs, queue, fq) ==
    IF queue = <<>> THEN [filters |-> fs, filteredQueue |-> fq]
    ELSE processUpdateQueue(
            runUpdater(Head(queue), fs),
            Tail(queue),
            IF Head(queue).fn = "activate"
            THEN Append(fq, filteredListUpdater(fs))
            ELSE fq)

\* The same under React's StrictMode: every updater is called twice on the
\* state it is handed and the state of the second call is kept, so the
\* updater of activate() calls setFilteredList twice.
RECURSIVE processUpdateQueueStrict(_, _, _)
processUpdateQueueStrict(fs, queue, fq) ==
    IF queue = <<>> THEN [filters |-> fs, filteredQueue |-> fq]
    ELSE processUpdateQueueStrict(
            runUpdater(Head(queue), fs),
            Tail(queue),
            IF Head(queue).fn = "activate"
            THEN Append(Append(fq, filteredListUpdater(fs)),
                        filteredListUpdater(runUpdater(Head(queue), fs)))
            ELSE fq)

\* Variant: the first queued updater of the filteredList cell wins.
processFilteredQueueFirst(list, fq, original) ==
    IF fq = <<>> THEN list
    ELSE filterList(original, Head(fq).currentFilters)

\* React runs the queued updaters of the filteredList cell in queue order.
RECURSIVE processFilteredQueue(_, _, _)
processFilteredQueue(list, fq, original) ==
    IF fq = <<>> THEN list
    ELSE processFilteredQueue(
            filterList(original, Head(fq).currentFilters), Tail(fq), original)

\* Running the queued updaters of the filteredList cell ends by an exception.
processFilteredQueueThrows(fq, original) ==
    \E i \in DOMAIN fq : filterListThrows(original, fq[i].currentFilters)

-----------------------------------------------------------------------------
(* The operations.                                                         *)

Pending == Len(updateQueue) + Len(filteredQueue)

\* setFilters(updater): React queues the updater; an unmounted component
\* takes no update.
setFilters(updater) ==
    /\ raised # "render"
    /\ Pending < MaxPending
    /\ updateQueue' = Append(updateQueue, updater)
    /\ UNCHANGED <<props, originalList, filters, filteredList, filteredQueue,
                   raised>>

\* function setActivityOf(filterName, payload = null, activity)
setActivityOf(filterName, payload, kind) ==
    setFilters([payload |-> DefaultNull(payload), fn |-> "setActivityOf",
                activity |-> kind, filterName |-> filterName])

\* Variant: apply returns a copy of the manager.
applyReturnsCopy(filterName, payload) ==
    /\ setActivityOf(filterName, DefaultNull(payload), "apply")
    /\ returned' = [t |-> "object", v |-> "copy"]

\* manager.apply(filterName, payload = null)
apply(filterName, payload) ==
    /\ setActivityOf(filterName, DefaultNull(payload), "apply")
    /\ returned' = manager

\* manager.remove(filterName, payload = null)
remove(filterName, payload) ==
    /\ setActivityOf(filterName, DefaultNull(payload), "remove")
    /\ returned' = manager

\* manager.toggle(filterName, payload = null)
toggle(filterName, payload) ==
    /\ setActivityOf(filterName, DefaultNull(payload), "toggle")
    /\ returned' = manager

\* manager.reset()
reset ==
    /\ setFilters([fn |-> "reset"])
    /\ returned' = manager

\* manager.activate(), its updater queued behind the pending ones.
activateQueued == setFilters([fn |-> "activate"])

\* manager.activate() while the component has no pending update: React runs
\* the updater at once on the rendered state; the state it returns is the
\* same object, so only the setFilteredList call inside it stays pending.
\* An exception of an updater run at once is swallowed by React and the
\* updater runs again in the render.
activateEager ==
    /\ raised # "render"
    /\ Pending = 0
    /\ filteredQueue' = Append(filteredQueue, filteredListUpdater(filters))
    /\ UNCHANGED <<props, originalList, filters, filteredList, updateQueue,
                   raised>>

\* manager.activate(): the method has no return statement.
activate ==
    /\ activateQueued \/ activateEager
    /\ returned' = Undefined

\* The body of useFilter in a render after the first: both cells run their
\* queues.  An exception of an updater ends the render: React unmounts the
\* component, whose last rendered values are the last the consumer saw.
RenderCells ==
    /\ LET r == processUpdateQueue(filters, updateQueue, filteredQueue) IN
        IF processFilteredQueueThrows(r.filteredQueue, originalList)
        THEN /\ raised' = "render"
             /\ UNCHANGED <<filters, filteredList>>
        ELSE /\ filters' = r.filters
             /\ filteredList' =
                   processFilteredQueue(filteredList, r.filteredQueue,
                                        originalList)
             /\ UNCHANGED raised
    /\ updateQueue' = <<>>
    /\ filteredQueue' = <<>>
    /\ returned' = NoCall

\* React renders the component again because of its pending updates.
Render ==
    /\ raised # "render"
    /\ Pending > 0
    /\ RenderCells
    /\ UNCHANGED <<props, originalList>>

\* Variant: each render stores the list argument in the ref again.
RerenderResync(list) ==
    /\ raised # "render"
    /\ list # props.list
    /\ props' = [props EXCEPT !.list = list]
    /\ RenderCells
    /\ originalList' = list

\* The consumer renders again and calls useFilter with another list:
\* useState(list) and useRef(list) take their argument in the first render
\* only.
Rerender(list) ==
    /\ raised # "render"
    /\ list # props.list
    /\ props' = [props EXCEPT !.list = list]
    /\ RenderCells
    /\ UNCHANGED originalList

\* React renders the component again under StrictMode.
RenderStrict ==
    /\ raised # "render"
    /\ Pending > 0
    /\ LET r == processUpdateQueueStrict(filters, updateQueue, filteredQueue) IN
        IF processFilteredQueueThrows(r.filteredQueue, originalList)
        THEN /\ raised' = "render"
             /\ UNCHANGED <<filters, filteredList>>
        ELSE /\ filters' = r.filters
             /\ filteredList' =
                   processFilteredQueue(filteredList, r.filteredQueue,
                                        originalList)
             /\ UNCHANGED raised
    /\ updateQueue' = <<>>
    /\ filteredQueue' = <<>>
    /\ returned' = NoCall
    /\ UNCHANGED <<props, originalList>>

\* name?.toLowerCase() throws: a value that is neither null nor undefined nor
\* a string has no toLowerCase method, and calling undefined is a TypeError.
optionalToLowerCaseThrows(name) == name.t \notin {"null", "undefined", "string"}

\* name?.toLowerCase(): undefined for null and undefined.
optionalToLowerCase(name) ==
    IF name = Null \/ name = Undefined THEN Undefined
    ELSE Str(toLowerCase(name.s))

\* filters.filter((filter) => filter.name === name)
RECURSIVE filtersNamed(_, _)
filtersNamed(fs, name) ==
    IF fs = <<>> THEN <<>>
    ELSE IF Head(fs).name = name
         THEN <<Head(fs)>> \o filtersNamed(Tail(fs), name)
         ELSE filtersNamed(Tail(fs), name)

\* array[0]: undefined for an empty array.
first(array) == IF array = <<>> THEN Undefined ELSE [t |-> "object", v |-> array[1]]

\* Variant: "all" is compared as written, without toLowerCase.
getFilterExactAll(name) ==
    IF name = nameAll
    THEN [t |-> "array", v |-> filters]
    ELSE first(filtersNamed(filters, name))

\* function getFilter(name): the value it returns, read from the filters of
\* the last render.
getFilter(name) ==
    IF optionalToLowerCase(name) = nameAll
    THEN [t |-> "array", v |-> filters]
    ELSE first(filtersNamed(filters, name))

\* function getFilter(name) ends by an exception.
getFilterThrows(name) == optionalToLowerCaseThrows(name)

\* A call of getFilter: it reads the cells and changes none; its exception
\* reaches the consumer's code that called it.
GetFilter(name) ==
    /\ raised # "render"
    /\ IF getFilterThrows(name)
       THEN raised' = "getFilter"
       ELSE /\ getFilter(name).t \in {"array", "object", "undefined"}
            /\ UNCHANGED raised
    /\ UNCHANGED <<props, originalList, filters, filteredList, updateQueue,
                   filteredQueue, returned>>

Next ==
    \/ \E c \in Calls : apply(c[1], c[2])
    \/ \E c \in Calls : remove(c[1], c[2])
    \/ \E c \in Calls : toggle(c[1], c[2])
    \/ reset
    \/ activate
    \/ Render

Spec == Init /\ [][Next]_vars

\* The same hook with a consumer that also calls getFilter, in batches of at
\* most MaxQueryPending updaters.
MaxQueryPending == 2

NextQuery ==
    \/ Next /\ Len(updateQueue') + Len(filteredQueue') <= MaxQueryPending
    \/ \E name \in QueryValues : GetFilter(name)

SpecQuery == Init /\ [][NextQuery]_vars

\* The same hook with a consumer that renders again with another list, in
\* batches of at most MaxRerenderPending updaters.
MaxRerenderPending == 2

NextRerender ==
    \/ Next /\ Len(updateQueue') + Len(filteredQueue') <= MaxRerenderPending
    \/ \E list \in Lists : Rerender(list)

SpecRerender == Init /\ [][NextRerender]_vars

\* The same hook in an application that may run under StrictMode, in batches
\* of at most MaxStrictPending updaters.
MaxStrictPending == 2

NextStrict ==
    \/ Next /\ Len(updateQueue') + Len(filteredQueue') <= MaxStrictPending
    \/ RenderStrict

SpecStrict == Init /\ [][NextStrict]_vars

\* The hook under React's scheduling: a component with a pending update is
\* rendered again.
NextLive ==
    \/ \E c \in LiveCalls : apply(c[1], c[2])
    \/ \E c \in LiveCalls : remove(c[1], c[2])
    \/ \E c \in LiveCalls : toggle(c[1], c[2])
    \/ reset
    \/ activate
    \/ Render

\* The hooks it is followed on: those mounted with one filter or none.
InitLive == Init /\ Len(props.filters) <= 1

SpecLive == InitLive /\ [][NextLive]_vars /\ WF_vars(Render)

-----------------------------------------------------------------------------
(* Vocabulary of the properties.                                           *)

\* A step in which React renders: the pending updaters are all run.
RenderStep ==
    /\ Pending > 0
    /\ updateQueue' = <<>>
    /\ filteredQueue' = <<>>
    /\ raised' # "render"

\* A step in which the consumer calls a method of the manager.
CallStep == Len(updateQueue') + Len(filteredQueue') > Pending

IsActivate(u) == u.fn = "activate"
IsReset(u) == u.fn = "reset"
IsSetActivity(u) == u.fn = "setActivityOf"
IsMutation(u) == IsReset(u) \/ IsSetActivity(u)

HasActivate(queue) == \E i \in DOMAIN queue : IsActivate(queue[i])

\* activate() is the last call of the pending batch.
ActivateIsLast ==
    IF updateQueue # <<>>
    THEN IsActivate(updateQueue[Len(updateQueue)])
    ELSE filteredQueue # <<>>

\* The items of list, in order, that pass the predicate of every active entry
\* of fs, each called with the entry's payload.
Satisfying(list, fs) ==
    LET Passes(x) ==
            \A i \in DOMAIN fs :
                fs[i].isActive => Call(fs[i].filter, x, fs[i].payload)
    IN SelectSeq(list, Passes)

Max(S) == CHOOSE m \in S : \A k \in S : k <= m

\* The entry `old` after the calls of `queue`, read off the calls themselves:
\* the payload is that of the last call naming the entry; isActive is set by
\* the last apply, remove or reset and flipped by each toggle after it.
MergedEntry(old, queue) ==
    LET named == {i \in DOMAIN queue :
                    IsSetActivity(queue[i]) /\ queue[i].filterName = old.name}
        sets == {i \in DOMAIN queue :
                    \/ IsReset(queue[i])
                    \/ i \in named /\ queue[i].activity \in {"apply", "remove"}}
        from == IF sets = {} THEN 0 ELSE Max(sets)
        base == IF sets = {} THEN old.isActive
                ELSE IsSetActivity(queue[from]) /\ queue[from].activity = "apply"
        flips == Cardinality({i \in named :
                    i > from /\ queue[i].activity = "toggle"})
    IN [payload |-> IF named = {} THEN old.payload
                    ELSE queue[Max(named)].payload,
        filter |-> old.filter,
        name |-> old.name,
        isActive |-> IF flips % 2 = 0 THEN base ELSE ~base]

Merged(fs, queue) == [k \in DOMAIN fs |-> MergedEntry(fs[k], queue)]

-----------------------------------------------------------------------------
(* C1: when activate() is the last call of a batch, the render that runs   *)
(* the batch leaves in filteredList exactly the items of originalList, in  *)
(* their order, that pass the predicate of every entry active at that      *)
(* point, called with the entry's payload; with no active entry that is    *)
(* the whole list.                                                         *)
C1Theorem ==
    [][(RenderStep /\ ActivateIsLast)
          => filteredList' = Satisfying(originalList, filters')]_vars

\* Two filters with different names are active and exactly one book passes both.
C1Witness ==
    /\ Pending = 0
    /\ Len(filters) = 2
    /\ filters[1].isActive /\ filters[2].isActive
    /\ filters[1].name # filters[2].name
    /\ filters[1].payload = Num(1990)
    /\ originalList = <<Sapiens, Hobbit, HarryPotter, Sapiens>>
    /\ filteredList = <<HarryPotter>>

(* C2: mutations and a closing activate() issued in one batch: the         *)
(* filtered list of that activate() is computed from the filter states     *)
(* with every mutation of the batch merged in, not from the states of the  *)
(* last render.                                                            *)
C2Theorem ==
    [][(/\ RenderStep
        /\ Len(updateQueue) >= 2
        /\ IsActivate(updateQueue[Len(updateQueue)]))
          => filteredList' =
                Satisfying(originalList,
                    Merged(filters, SubSeq(updateQueue, 1, Len(updateQueue) - 1)))
      ]_vars

\* apply("year", 1990), apply("Year") and activate() wait in one batch, and
\* the states of the last render would filter differently.
C2Witness ==
    /\ Len(updateQueue) = 3
    /\ updateQueue[1] = [payload |-> Num(1990), fn |-> "setActivityOf",
                         activity |-> "apply", filterName |-> nameYear]
    /\ updateQueue[2] = [payload |-> Null, fn |-> "setActivityOf",
                         activity |-> "apply", filterName |-> nameYearCap]
    /\ IsActivate(updateQueue[3])
    /\ Len(filters) = 2
    /\ filters[1].name # filters[2].name
    /\ Satisfying(originalList, filters) = originalList
    /\ Satisfying(originalList, Merged(filters, SubSeq(updateQueue, 1, 2)))
          = <<HarryPotter>>

(* C3: apply, remove, toggle and reset leave filteredList alone: no call   *)
(* of the manager changes it, and a render changes it only when an         *)
(* activate() is among the pending calls.                                  *)
C3Theorem ==
    [][/\ CallStep => filteredList' = filteredList
       /\ (RenderStep /\ ~HasActivate(updateQueue) /\ filteredQueue = <<>>)
             => filteredList' = filteredList]_vars

\* A filter was made active and rendered, and the list is still unfiltered.
C3Witness ==
    /\ Pending = 0
    /\ \E i \in DOMAIN filters : filters[i].isActive
    /\ filteredList = originalList
    /\ Satisfying(originalList, filters) # originalList

(* C4: right after the hook is mounted there is one entry per descriptor,  *)
(* in descriptor order, inactive and with payload null, and filteredList   *)
(* is the list the hook was given.                                         *)
C4Theorem ==
    /\ Len(filters) = Len(props.filters)
    /\ \A i \in DOMAIN filters :
          /\ filters[i].name = props.filters[i].name
          /\ filters[i].filter = props.filters[i].filter
          /\ filters[i].isActive = FALSE
          /\ filters[i].payload = Null
    /\ filteredList = props.list
    /\ [][TRUE]_vars

\* A hook mounted with two descriptors and four books, nothing called yet.
C4Witness ==
    /\ Len(props.filters) = 2
    /\ Len(props.list) = 4
    /\ Pending = 0
    /\ filteredList = props.list
    /\ \A i \in DOMAIN filters : ~filters[i].isActive /\ filters[i].payload = Null

(* C5: reset() followed by activate() gives the whole originalList: in one *)
(* batch whatever the states, payloads and filtered list before it, and    *)
(* across batches, since what activate() computes from the states a        *)
(* rendered reset() leaves is the whole list.                              *)
C5Theorem ==
    [][/\ (/\ RenderStep
           /\ Len(updateQueue) >= 2
           /\ IsReset(updateQueue[Len(updateQueue) - 1])
           /\ IsActivate(updateQueue[Len(updateQueue)]))
             => filteredList' = originalList
       /\ (/\ RenderStep
           /\ updateQueue # <<>>
           /\ IsReset(updateQueue[Len(updateQueue)]))
             => filterList(originalList', filters') = originalList'
      ]_vars

\* reset() and activate() wait in a batch while two filters are active, one
\* with a payload, and the list is filtered down to one book.
C5Witness ==
    /\ Len(updateQueue) = 2
    /\ IsReset(updateQueue[1])
    /\ IsActivate(updateQueue[2])
    /\ Len(filters) = 2
    /\ filters[1].isActive /\ filters[2].isActive
    /\ filters[1].payload = Num(1990)
    /\ filteredList = <<HarryPotter>>

\* The updater u names no entry of the rendered filters.
NamesNoEntry(u) ==
    /\ IsSetActivity(u)
    /\ \A k \in DOMAIN filters : filters[k].name # u.filterName

OnlyToggles(name) ==
    /\ updateQueue # <<>>
    /\ \A i \in DOMAIN updateQueue :
          /\ IsSetActivity(updateQueue[i])
          /\ updateQueue[i].activity = "toggle"
          /\ updateQueue[i].filterName = name

(* C7: a batch of toggle(name) calls flips isActive of the entries named   *)
(* name when their number is odd and leaves it when it is even, and never  *)
(* touches isActive of another entry: one toggle flips, two give the       *)
(* original value back.                                                    *)
C7Theorem ==
    [][\A name \in FilterNames :
          (RenderStep /\ OnlyToggles(name))
            => /\ Len(filters') = Len(filters)
               /\ \A k \in DOMAIN filters :
                    filters'[k].isActive =
                        IF filters[k].name = name /\ Len(updateQueue) % 2 = 1
                        THEN ~filters[k].isActive
                        ELSE filters[k].isActive
      ]_vars

\* Two toggle("year") calls wait in one batch and the entry is active.
C7Witness ==
    /\ Len(updateQueue) = 2
    /\ OnlyToggles(nameYear)
    /\ Len(filters) >= 1
    /\ filters[1].name = nameYear
    /\ filters[1].isActive

\* The call the consumer makes in this step passes `payload` to apply, remove
\* or toggle.
CallsWithPayload(payload) ==
    \E c \in Calls :
        /\ c[2] = payload
        /\ apply(c[1], c[2]) \/ remove(c[1], c[2]) \/ toggle(c[1], c[2])

(* C8: apply, remove and toggle store the payload they are called with,    *)
(* null when it is omitted: the queued updater carries that payload, and a *)
(* rendered batch of such calls leaves each entry with the payload of the  *)
(* last call naming it, whether that call made it active or inactive,      *)
(* while an entry no call names keeps isActive and payload.                *)
C8Theorem ==
    [][/\ CallsWithPayload(Undefined)
            => updateQueue'[Len(updateQueue')].payload = Null
       /\ CallsWithPayload(Num(1990))
            => updateQueue'[Len(updateQueue')].payload = Num(1990)
       /\ (/\ RenderStep
           /\ updateQueue # <<>>
           /\ \A i \in DOMAIN updateQueue : IsSetActivity(updateQueue[i]))
             => /\ Len(filters') = Len(filters)
                /\ \A k \in DOMAIN filters :
                     LET named == {i \in DOMAIN updateQueue :
                            updateQueue[i].filterName = filters[k].name}
                     IN IF named = {}
                        THEN filters'[k] = filters[k]
                        ELSE filters'[k].payload =
                                updateQueue[Max(named)].payload
      ]_vars

\* remove("year") with the payload omitted waits in a batch while the entry
\* is active with payload 1990.
C8Witness ==
    /\ Len(filters) = 2
    /\ filters[1].name = nameYear /\ filters[2].name = nameYearCap
    /\ filters[1].isActive /\ filters[1].payload = Num(1990)
    /\ filters[2].isActive
    /\ updateQueue = <<[payload |-> Null, fn |-> "setActivityOf",
                        activity |-> "remove", filterName |-> nameYear]>>

(* C9: a rendered batch ending in reset() leaves every entry inactive, and *)
(* reset() changes nothing else: after a batch of reset() (and activate()) *)
(* calls every entry has the payload, name and predicate it had.           *)
C9Theorem ==
    [][/\ (/\ RenderStep
           /\ updateQueue # <<>>
           /\ IsReset(updateQueue[Len(updateQueue)]))
             => \A k \in DOMAIN filters' : filters'[k].isActive = FALSE
       /\ (/\ RenderStep
           /\ \E i \in DOMAIN updateQueue : IsReset(updateQueue[i])
           /\ \A i \in DOMAIN updateQueue :
                 IsReset(updateQueue[i]) \/ IsActivate(updateQueue[i]))
             => /\ Len(filters') = Len(filters)
                /\ \A k \in DOMAIN filters :
                     /\ filters'[k].isActive = FALSE
                     /\ filters'[k].payload = filters[k].payload
                     /\ filters'[k].name = filters[k].name
                     /\ filters'[k].filter = filters[k].filter
      ]_vars

\* reset() waits alone in a batch while two entries of the same name are
\* active with payload 1990.
C9Witness ==
    /\ updateQueue = <<[fn |-> "reset"]>>
    /\ filteredQueue = <<>>
    /\ Len(filters) = 2
    /\ filters[1].isActive /\ filters[1].payload = Num(1990)
    /\ filters[2].isActive /\ filters[2].payload = Num(1990)

\* name is the string "all" in some letter case.
IsAllAnyCase(name) ==
    /\ name.t = "string"
    /\ Len(name.s) = 3
    /\ name.s[1] \in {"a", "A"}
    /\ name.s[2] \in {"l", "L"}
    /\ name.s[3] \in {"l", "L"}

Min(S) == CHOOSE m \in S : \A k \in S : m <= k

(* C10: getFilter(name) returns the whole sequence of entries when name is *)
(* "all" in any letter case; otherwise the first entry whose name is       *)
(* exactly name, and undefined when no entry has that name.                *)
C10Theorem ==
    \A name \in QueryNames :
        LET same == {k \in DOMAIN filters : filters[k].name = name} IN
        getFilter(name) =
            IF IsAllAnyCase(name) THEN [t |-> "array", v |-> filters]
            ELSE IF same = {} THEN Undefined
            ELSE [t |-> "object", v |-> filters[Min(same)]]

\* Two entries share the name "year" and differ; getFilter("year") gives the
\* first, getFilter("Year") nothing and getFilter("ALL") both.
C10Witness ==
    /\ Len(filters) = 2
    /\ filters[1].name = nameYear /\ filters[2].name = nameYear
    /\ filters[1] # filters[2]
    /\ filters[1].isActive /\ filters[1].payload = Num(1990)
    /\ getFilter(nameYear) = [t |-> "object", v |-> filters[1]]
    /\ getFilter(nameYearCap) = Undefined
    /\ getFilter(nameAllUpper) = [t |-> "array", v |-> filters]

(* C11: a mutation is visible to the next read: once apply, remove, toggle *)
(* or reset has returned, getFilter, called in the same handler before any *)
(* render, already reports the isActive and payload the pending calls set. *)
C11Original ==
    returned = manager
        => \A name \in FilterNames :
              getFilter(name) =
                  first(filtersNamed(Merged(filters, updateQueue), name))

(* C12: apply, remove, toggle and reset return the manager itself, not a   *)
(* copy, whatever name they are given, so the next call of a chain is a    *)
(* call on the manager like one issued on its own; activate() returns      *)
(* undefined.                                                              *)
C12Theorem ==
    [][CallStep
          => returned' =
                IF /\ Len(updateQueue') > Len(updateQueue)
                   /\ IsMutation(updateQueue'[Len(updateQueue')])
                THEN manager
                ELSE Undefined
      ]_vars

\* The chain apply("Year").apply("year", 1990).activate() has run on a hook
\* that has no filter "Year": activate() has returned undefined.
C12Witness ==
    /\ Len(updateQueue) = 3
    /\ NamesNoEntry(updateQueue[1])
    /\ updateQueue[1].activity = "apply"
    /\ updateQueue[2] = [payload |-> Num(1990), fn |-> "setActivityOf",
                         activity |-> "apply", filterName |-> nameYear]
    /\ IsActivate(updateQueue[3])
    /\ returned = Undefined

\* A step in which the consumer calls activate().
ActivateStep ==
    /\ CallStep
    /\ \/ Len(filteredQueue') > Len(filteredQueue)
       \/ /\ Len(updateQueue') > Len(updateQueue)
          /\ IsActivate(updateQueue'[Len(updateQueue')])

(* C13: when a predicate of an active filter throws in the recomputation   *)
(* of an activate() call, the exception reaches the caller of activate(),  *)
(* and filteredList keeps the value it had.                                *)
C13Original ==
    [][(/\ ActivateStep
        /\ filterListThrows(originalList, Merged(filters, updateQueue)))
          => /\ raised' = "activate"
             /\ filteredList' = filteredList
      ]_vars

(* C14: no operation raises an exception of its own: apply, remove and    *)
(* toggle with any name and getFilter with any argument, a declared name,  *)
(* an unknown one, undefined, null or a value that is no string, return.   *)
C14Original == raised # "getFilter"

\* s is t with some of its elements left out.
RECURSIVE IsSubsequence(_, _)
IsSubsequence(s, t) ==
    IF s = <<>> THEN TRUE
    ELSE IF t = <<>> THEN FALSE
    ELSE IF Head(s) = Head(t) THEN IsSubsequence(Tail(s), Tail(t))
    ELSE IsSubsequence(s, Tail(t))

(* C15: filteredList is always a subsequence of originalList: items of     *)
(* originalList only, in the order they have there, none more often than   *)
(* there.                                                                  *)
C15Theorem == IsSubsequence(filteredList, originalList)

\* Of four books, one of them listed twice, three are left, the double one
\* twice.
C15Witness ==
    /\ originalList = <<Sapiens, Hobbit, HarryPotter, Sapiens>>
    /\ filteredList = <<Sapiens, HarryPotter, Sapiens>>

\* The place of the last activate() in the pending batch.
LastActivate == Max({i \in DOMAIN updateQueue : IsActivate(updateQueue[i])})

(* C16: activate() filters with the filter states in effect when it is     *)
(* called: mutations issued after the last activate() of a batch do not    *)
(* change the filtered list of that batch, which is the list filtered by   *)
(* the calls issued before that activate(); they are merged into the       *)
(* states, where the next activate() finds them.                           *)
C16Theorem ==
    [][(/\ RenderStep
        /\ updateQueue # <<>>
        /\ IsMutation(updateQueue[Len(updateQueue)]))
          => /\ filters' = Merged(filters, updateQueue)
             /\ filteredList' =
                  IF HasActivate(updateQueue)
                  THEN Satisfying(originalList,
                          Merged(filters,
                                 SubSeq(updateQueue, 1, LastActivate - 1)))
                  ELSE IF filteredQueue # <<>>
                       THEN Satisfying(originalList, filters)
                       ELSE filteredList
      ]_vars

\* apply("year", 1990), activate() and remove("year") wait in one batch; the
\* states before and after the remove filter differently.
C16Witness ==
    /\ Len(updateQueue) = 3
    /\ updateQueue[1] = [payload |-> Num(1990), fn |-> "setActivityOf",
                         activity |-> "apply", filterName |-> nameYear]
    /\ IsActivate(updateQueue[2])
    /\ updateQueue[3] = [payload |-> Null, fn |-> "setActivityOf",
                         activity |-> "remove", filterName |-> nameYear]
    /\ Satisfying(originalList, Merged(filters, SubSeq(updateQueue, 1, 1)))
          # Satisfying(originalList, Merged(filters, updateQueue))

\* The reference: a manager that carries out each call at once.  Its state
\* is the pair of its filter states and its filtered list.
RefMutate(fs, u) ==
    [k \in DOMAIN fs |->
        IF IsReset(u)
        THEN [payload |-> fs[k].payload, filter |-> fs[k].filter,
              name |-> fs[k].name, isActive |-> FALSE]
        ELSE IF fs[k].name = u.filterName
        THEN [payload |-> u.payload, filter |-> fs[k].filter,
              name |-> fs[k].name,
              isActive |-> CASE u.activity = "apply" -> TRUE
                             [] u.activity = "remove" -> FALSE
                             [] u.activity = "toggle" -> ~fs[k].isActive]
        ELSE fs[k]]

RefStep(st, u) ==
    IF IsActivate(u)
    THEN <<st[1], Satisfying(originalList, st[1])>>
    ELSE <<RefMutate(st[1], u), st[2]>>

RECURSIVE RefRun(_, _)
RefRun(st, calls) ==
    IF calls = <<>> THEN st
    ELSE RefRun(RefStep(st, Head(calls)), Tail(calls))

(* C17: running the queued calls gives what carrying them out one at a     *)
(* time, in the order they were issued, gives: each render leaves the      *)
(* filter states and the filtered list that the reference reaches from the *)
(* values of the last render by the calls of the batch, so that the two    *)
(* agree after every batch, whatever the batches are.                      *)
C17Theorem ==
    [][RenderStep
          => <<filters', filteredList'>> =
                RefRun(<<filters,
                         IF filteredQueue # <<>>
                         THEN Satisfying(originalList, filters)
                         ELSE filteredList>>,
                       updateQueue)
      ]_vars

\* apply("year", 1990), remove("year") and activate() wait in one batch while
\* the entry is inactive and both entries of the hook have been changed in
\* an earlier batch.
C17Witness ==
    /\ Len(updateQueue) = 3
    /\ updateQueue[1] = [payload |-> Num(1990), fn |-> "setActivityOf",
                         activity |-> "apply", filterName |-> nameYear]
    /\ updateQueue[2] = [payload |-> Null, fn |-> "setActivityOf",
                         activity |-> "remove", filterName |-> nameYear]
    /\ IsActivate(updateQueue[3])
    /\ Len(filters) = 2
    /\ filters[1].name = nameYear /\ ~filters[1].isActive
    /\ filters[1].payload = Num(1990)
    /\ filters[2].isActive
    /\ filteredList # originalList

(* C18: originalList is fixed when the hook is mounted: a render in which  *)
(* the consumer passes another list changes neither originalList nor, with *)
(* no activate() pending, filteredList; and an activate() rendered while   *)
(* the list argument differs from originalList still filters originalList. *)
C18Theorem ==
    [][/\ originalList' = originalList
       /\ (/\ props'.list # props.list
           /\ ~HasActivate(updateQueue)
           /\ filteredQueue = <<>>)
             => filteredList' = filteredList
       /\ (/\ RenderStep
           /\ ActivateIsLast
           /\ props'.list # originalList)
             => filteredList' = Satisfying(originalList, filters')
      ]_vars

\* The hook was mounted with four books and is now passed two; its filtered
\* list holds a book that is not among the two.
C18Witness ==
    /\ Pending = 0
    /\ Len(originalList) = 4
    /\ props.list = <<Sapiens, Hobbit>>
    /\ filteredList = <<HarryPotter>>

(* C19: the filter states always are as many as the descriptors the hook  *)
(* was mounted with, and have their names and predicates in their order:   *)
(* no call adds, drops, renames or reorders an entry, and getFilter("all") *)
(* returns as many entries as there are descriptors.                       *)
C19Theorem ==
    /\ Len(filters) = Len(props.filters)
    /\ \A i \in DOMAIN filters :
          /\ i \in DOMAIN props.filters
          /\ filters[i].name = props.filters[i].name
          /\ filters[i].filter = props.filters[i].filter
    /\ getFilter(nameAll).t = "array"
    /\ Len(getFilter(nameAll).v) = Len(props.filters)

\* Both entries of a hook with two descriptors of different names have been
\* changed by rendered calls and the list has been filtered.
C19Witness ==
    /\ Pending = 0
    /\ Len(props.filters) = 2
    /\ props.filters[1].name # props.filters[2].name
    /\ filters[1].payload = Num(1990)
    /\ ~filters[1].isActive
    /\ filters[2].isActive
    /\ filteredList # originalList

(* C20, as claimed: every activate() call takes effect once its batch is  *)
(* rendered: filteredList then is originalList filtered by the states that *)
(* were in effect at that call.                                            *)
C20Original ==
    [][RenderStep
          => \A i \in DOMAIN updateQueue :
                IsActivate(updateQueue[i])
                  => filteredList' =
                        Satisfying(originalList,
                            Merged(filters, SubSeq(updateQueue, 1, i - 1)))
      ]_vars

(* C20, amended: the last activate() call of a batch takes effect when the *)
(* batch is rendered: filteredList then is originalList filtered by the    *)
(* states in effect at that call, an earlier activate() of the batch being *)
(* superseded; and every batch is rendered, or ended by the exception of a *)
(* predicate, so that no call stays pending forever.                       *)
C20Theorem ==
    /\ [][RenderStep
            => filteredList' =
                  IF HasActivate(updateQueue)
                  THEN Satisfying(originalList,
                          Merged(filters,
                                 SubSeq(updateQueue, 1, LastActivate - 1)))
                  ELSE IF filteredQueue # <<>>
                       THEN Satisfying(originalList, filters)
                       ELSE filteredList
         ]_vars
    /\ (Pending > 0) ~> (Pending = 0)

\* activate(), apply("year", 1990) and activate() wait in one batch, and the
\* two activate() calls filter differently.
C20Witness ==
    /\ Len(updateQueue) = 3
    /\ IsActivate(updateQueue[1])
    /\ updateQueue[2] = [payload |-> Num(1990), fn |-> "setActivityOf",
                         activity |-> "apply", filterName |-> nameYear]
    /\ IsActivate(updateQueue[3])
    /\ Satisfying(originalList, filters)
          # Satisfying(originalList, Merged(filters, updateQueue))

(* C21: activate() leaves every entry as it is, isActive, payload, name    *)
(* and predicate: a rendered batch of activate() calls changes no entry,   *)
(* and two activate() calls in a row filter as one does, by the states in  *)
(* effect before them, also when React calls each updater twice.           *)
C21Theorem ==
    [][RenderStep
          => /\ (\A i \in DOMAIN updateQueue : IsActivate(updateQueue[i]))
                  => /\ filters' = filters
                     /\ filteredList' = Satisfying(originalList, filters)
             /\ (/\ Len(updateQueue) >= 2
                 /\ IsActivate(updateQueue[Len(updateQueue)])
                 /\ IsActivate(updateQueue[Len(updateQueue) - 1]))
                  => filteredList' =
                        Satisfying(originalList,
                            Merged(filters,
                                   SubSeq(updateQueue, 1, Len(updateQueue) - 2)))
      ]_vars

\* Two activate() calls wait in one batch while an entry with payload 1990 is
\* active and the list has not been filtered by it yet.
C21Witness ==
    /\ updateQueue = <<[fn |-> "activate"], [fn |-> "activate"]>>
    /\ filteredQueue = <<>>
    /\ \E i \in DOMAIN filters :
          filters[i].isActive /\ filters[i].payload = Num(1990)
    /\ filteredList = originalList
    /\ Satisfying(originalList, filters) # originalList

\* The hook has two entries of one name, and the pending batch is one
\* apply, remove or toggle with that name, alone or followed by activate().
OneCallOnSharedName ==
    /\ Len(filters) = 2
    /\ filters[1].name = filters[2].name
    /\ Len(updateQueue) \in {1, 2}
    /\ filteredQueue = <<>>
    /\ IsSetActivity(updateQueue[1])
    /\ updateQueue[1].filterName = filters[1].name
    /\ Len(updateQueue) = 2 => IsActivate(updateQueue[2])

(* C22: when two descriptors share a name, apply, remove and toggle with   *)
(* that name set isActive and payload of both entries, activate() filters  *)
(* by the predicates of both, and getFilter with that name returns the     *)
(* first of them only.                                                     *)
C22Theorem ==
    [][(RenderStep /\ OneCallOnSharedName)
          => /\ Len(filters') = 2
             /\ \A k \in 1..2 :
                   /\ filters'[k].payload = updateQueue[1].payload
                   /\ filters'[k].isActive =
                         CASE updateQueue[1].activity = "apply" -> TRUE
                           [] updateQueue[1].activity = "remove" -> FALSE
                           [] updateQueue[1].activity = "toggle" ->
                                ~filters[k].isActive
             /\ Len(updateQueue) = 2
                   => \A x \in {HarryPotter, Hobbit, Sapiens} :
                         (\E i \in DOMAIN filteredList' : filteredList'[i] = x)
                           <=> /\ \E i \in DOMAIN originalList :
                                     originalList[i] = x
                               /\ \A k \in 1..2 :
                                     filters'[k].isActive
                                       => Call(filters'[k].filter, x,
                                               filters'[k].payload)
             /\ \E name \in FilterNames :
                   /\ name = filters[1].name
                   /\ getFilter(name)' = [t |-> "object", v |-> filters'[1]]
                   /\ getFilter(name)'.v # filters'[2]
      ]_vars

\* apply("year", 1990) and activate() wait in one batch of a hook whose two
\* filters are both named "year", both inactive with payload null.
C22Witness ==
    /\ OneCallOnSharedName
    /\ Len(updateQueue) = 2
    /\ updateQueue[1] = [payload |-> Num(1990), fn |-> "setActivityOf",
                         activity |-> "apply", filterName |-> nameYear]
    /\ ~filters[1].isActive /\ ~filters[2].isActive
    /\ filters[1].payload = Null /\ filters[2].payload = Null
    /\ filteredList = originalList

====
